---------------------------- MODULE Spec2Model ----------------------------
(***************************************************************************)
(* Model of the Vector-Search-Engine backend:                              *)
(*   backend/utils/tokenizer.py     chunk_text                             *)
(*   backend/utils/vector_store.py  in-memory index, Weaviate client,      *)
(*                                  calculate_content_relevance, search    *)
(*   backend/utils/fetcher.py       fetch_and_parse_html (block extractor) *)
(*   backend/main.py                find_element_containing_text, /search  *)
(*                                                                         *)
(* A Python str is a sequence of pieces.  A piece is a TLA+ string that    *)
(* stands for itself: a single blank " ", a punctuation mark, or a run of  *)
(* letters taken from Vocabulary.  The vocabulary is chosen so that no     *)
(* word occurs inside a concatenation of other words except as a whole     *)
(* piece; on such strings a substring test on pieces is the substring test *)
(* on characters, and len() is the sum of the pieces' Len.                 *)
(***************************************************************************)
EXTENDS Integers, Sequences, FiniteSets, TLC

VARIABLES
    ck,     \* one run of chunk_text: its arguments and its locals
    rk,     \* one call of search_chunks_in_store on an in-memory index
    pg,     \* one page going through the block extractor and the localizer
    mp,     \* the percentage mapping applied to two scores
    in_memory_chunks,       \* vector_store._in_memory_chunks
    in_memory_embeddings,   \* vector_store._in_memory_embeddings
    client,                 \* vector_store.client
    weaviate,               \* the Weaviate server: the Chunk collection
    req,                    \* the /search requests in flight: place and locals
    loop,                   \* the request whose handler holds the event loop
    response                \* the last response sent, with what its handler saw

store == <<in_memory_chunks, in_memory_embeddings, client, weaviate>>
server == <<in_memory_chunks, in_memory_embeddings, client, weaviate, req, loop,
           response>>
vars == <<ck, rk, pg, mp, in_memory_chunks, in_memory_embeddings, client, weaviate, req, loop,
         response>>

\* the value of a part of the model that takes no part in a specification
Idle == [pc |-> "idle"]

---------------------------------------------------------------------------
(* Strings *)

Blank == " "

RECURSIVE ConcatRange(_, _, _)
\* seqs[lo] \o ... \o seqs[hi], by halves
ConcatRange(seqs, lo, hi) ==
    IF lo > hi THEN <<>>
    ELSE IF lo = hi THEN seqs[lo]
    ELSE ConcatRange(seqs, lo, (lo + hi) \div 2)
             \o ConcatRange(seqs, (lo + hi) \div 2 + 1, hi)

\* "".join(seqs)
Concat(seqs) == ConcatRange(seqs, 1, Len(seqs))

RECURSIVE JoinRange(_, _, _)
\* tokens lo..hi joined with blanks, by halves
JoinRange(tokens, lo, hi) ==
    IF lo > hi THEN <<>>
    ELSE IF lo = hi THEN tokens[lo]
    ELSE LET mid == (lo + hi) \div 2
         IN  JoinRange(tokens, lo, mid) \o <<Blank>> \o JoinRange(tokens, mid + 1, hi)

\* " ".join(tokens)
Join(tokens) == JoinRange(tokens, 1, Len(tokens))

\* the k-th member of a set of positions, in increasing order
NthOf(positions, k) ==
    CHOOSE i \in positions : Cardinality({j \in positions : j < i}) = k - 1

\* the pieces of s at the positions kept, in order
Pick(s, keep) == [k \in 1..Cardinality(keep) |-> s[NthOf(keep, k)]]

\* the positions where a maximal run of pieces outside seps starts
RunStarts(s, seps) ==
    {i \in 1..Len(s) : s[i] \notin seps /\ (i = 1 \/ s[i - 1] \in seps)}

\* the position where the run that starts at i ends
RunEnd(s, seps, i) ==
    CHOOSE j \in i..Len(s) :
        /\ \A k \in i..j : s[k] \notin seps
        /\ (j = Len(s) \/ s[j + 1] \in seps)

\* str.split(): the maximal runs of non-blank pieces
SplitWs(s) ==
    LET starts == RunStarts(s, {Blank})
    IN  [k \in 1..Cardinality(starts) |->
            SubSeq(s, NthOf(starts, k), RunEnd(s, {Blank}, NthOf(starts, k)))]

Split(s) == SplitWs(s)

---------------------------------------------------------------------------
(* tokenizer.py *)

\* nltk word_tokenize on letters, blanks and commas: blanks separate the
\* tokens and a comma is a token of its own; the token that starts at i
WordTokenizeFrom(s, i) ==
    IF s[i] = "," THEN <<",">> ELSE SubSeq(s, i, RunEnd(s, {Blank, ","}, i))

word_tokenize(text) ==
    LET starts == RunStarts(text, {Blank, ","})
                  \cup {i \in 1..Len(text) : text[i] = ","}
    IN  [k \in 1..Cardinality(starts) |-> WordTokenizeFrom(text, NthOf(starts, k))]

\* the test of tokenizer.py:27 that closes the current chunk
ChunkIsFullOff(len, max_tokens, current_chunk) ==
    len + 1 >= max_tokens /\ current_chunk # <<>>

ChunkIsFull(len, max_tokens, current_chunk) ==
    len + 1 > max_tokens /\ current_chunk # <<>>

\* one iteration of the loop of tokenizer.py:24-33 on the locals st
ChunkLoopBody(st, word, max_tokens) ==
    LET closed == ChunkIsFull(st.current_chunk_len, max_tokens, st.current_chunk)
        chunks == IF closed THEN Append(st.chunks, Join(st.current_chunk)) ELSE st.chunks
        cur    == IF closed THEN <<>> ELSE st.current_chunk
        len    == IF closed THEN 0 ELSE st.current_chunk_len
    IN  [chunks |-> chunks,
         current_chunk |-> Append(cur, word),
         current_chunk_len |-> len + 1]

ChunkFlushDropsRest(st) == st.chunks

\* tokenizer.py:35-39
ChunkFlush(st) ==
    IF st.current_chunk # <<>> THEN Append(st.chunks, Join(st.current_chunk))
    ELSE st.chunks

RECURSIVE ChunkLoopRange(_, _, _, _, _)
\* the locals after each iteration of the loop on words lo..hi (lo <= hi),
\* from the locals st: the iterations of the first half, then those of the
\* second half from the locals the first half ends with
ChunkLoopRange(st, words, lo, hi, max_tokens) ==
    IF lo = hi THEN <<ChunkLoopBody(st, words[lo], max_tokens)>>
    ELSE LET mid  == (lo + hi) \div 2
             half == ChunkLoopRange(st, words, lo, mid, max_tokens)
         IN  half \o ChunkLoopRange(half[Len(half)], words, mid + 1, hi, max_tokens)

\* tokenizer.py:24-33: the locals when the loop ends
ChunkLoop(st, words, max_tokens) ==
    IF words = <<>> THEN st
    ELSE ChunkLoopRange(st, words, 1, Len(words), max_tokens)[Len(words)]

ChunkLocals0 == [chunks |-> <<>>, current_chunk |-> <<>>, current_chunk_len |-> 0]

\* chunk_text(text, max_tokens) as one call
chunk_text(text, max_tokens) ==
    IF text = <<>> THEN <<>>
    ELSE ChunkFlush(ChunkLoop(ChunkLocals0, word_tokenize(text), max_tokens))

---------------------------------------------------------------------------
(* vector_store.py: scoring *)

\* scores are integers in units of 1/Scale; a result's score, rounded to 4
\* places, is in units of 1/ScoreScale
Scale == 100000
ScoreScale == 10000

Min(a, b) == IF a <= b THEN a ELSE b
Max(a, b) == IF a >= b THEN a ELSE b

\* str.lower() on a piece
LowerPiece(p) == CASE p = "Fox" -> "fox" [] p = "Dog" -> "dog" [] OTHER -> p

Lower(s) == [k \in 1..Len(s) |-> LowerPiece(s[k])]

\* t in s
Contains(s, t) ==
    \E k \in 0..(Len(s) - Len(t)) : SubSeq(s, k + 1, k + Len(t)) = t

\* the positions from `from` on where t occurs in s
Occurrences(s, t, from) ==
    {k \in from..(Len(s) - Len(t) + 1) : SubSeq(s, k, k + Len(t) - 1) = t}

RECURSIVE CountFrom(_, _, _)
\* the occurrences of t in s from position `from` on, read left to right
\* without overlap: the first one, then those after its end
CountFrom(s, t, from) ==
    LET found == Occurrences(s, t, from)
    IN  IF found = {} THEN 0
        ELSE 1 + CountFrom(s, t, NthOf(found, 1) + Len(t))

\* s.count(t)
Count(s, t) == IF Len(t) = 0 THEN Len(s) + 1 ELSE CountFrom(s, t, 1)

SentenceEnd == {".", "!", "?"}

\* re.split(r'[.!?]+', content): the pieces between the runs of delimiters,
\* the empty ones before a leading and after a trailing run included
SplitSentences(s) ==
    LET starts == {i \in 1..Len(s) :
                      s[i] \in SentenceEnd /\ (i = 1 \/ s[i - 1] \notin SentenceEnd)}
        ends   == {i \in 1..Len(s) :
                      s[i] \in SentenceEnd /\ (i = Len(s) \/ s[i + 1] \notin SentenceEnd)}
        n      == Cardinality(starts)
    IN  [k \in 1..(n + 1) |->
            SubSeq(s, IF k = 1 THEN 1 ELSE NthOf(ends, k - 1) + 1,
                      IF k = n + 1 THEN Len(s) ELSE NthOf(starts, k) - 1)]

RECURSIVE SumRange(_, _, _)
\* the sum of ns[lo..hi], by halves
SumRange(ns, lo, hi) ==
    IF lo > hi THEN 0
    ELSE IF lo = hi THEN ns[lo]
    ELSE SumRange(ns, lo, (lo + hi) \div 2) + SumRange(ns, (lo + hi) \div 2 + 1, hi)

\* sum(ns)
SumSeq(ns) == SumRange(ns, 1, Len(ns))

\* calculate_content_relevance(content, query), in units of 1/Scale
calculate_content_relevance(content, query) ==
    LET content_lower == Lower(content)
        query_terms   == Split(Lower(query))
        n             == Len(query_terms)
        term_matches  == SumSeq([k \in 1..n |->
                             IF Contains(content_lower, query_terms[k]) THEN 1 ELSE 0])
        ratio_part    == IF n > 0 THEN (15000 * term_matches) \div n ELSE 0
        total_occurrences == SumSeq([k \in 1..n |-> Count(content_lower, query_terms[k])])
        frequency_boost   == Min(10000, total_occurrences * 2000)
        sentences     == SplitSentences(content)
        proximity_boost ==
            IF n > 1
            THEN SumSeq([j \in 1..Len(sentences) |->
                     IF \A k \in 1..n : Contains(Lower(sentences[j]), query_terms[k])
                     THEN 5000 ELSE 0])
            ELSE 0
    IN  ratio_part + frequency_boost + Min(10000, proximity_boost)

\* round(x, 4) of a score in units of 1/Scale, in units of 1/ScoreScale
Round4(x) == (x + 5) \div 10

\* vector_store.py:174-176
FinalScore(base_score, text, query) ==
    Min(Scale, base_score + calculate_content_relevance(text, query))

---------------------------------------------------------------------------
(* vector_store.py: the in-memory search *)

IndexOrders(n) == {p \in [1..n -> 1..n] : \A a, b \in 1..n : a # b => p[a] # p[b]}

\* np.argsort(similarities): the index orders that sort the similarities
\* ascending; the default sort is not stable, so equal similarities come in
\* any order
ArgSorts(similarities) ==
    {p \in IndexOrders(Len(similarities)) :
        \A a, b \in 1..Len(similarities) :
            a < b => similarities[p[a]] <= similarities[p[b]]}

Reverse(s) == [k \in 1..Len(s) |-> s[Len(s) + 1 - k]]

\* vector_store.py:168: np.argsort(similarities)[::-1][:top_k]
TopIndices(similarities, sorted, top_k) ==
    SubSeq(Reverse(sorted), 1, Min(top_k, Len(sorted)))

\* vector_store.py:171-172: the indices whose similarity is > 0, in order
KeepPositive(indices, similarities) ==
    Pick(indices, {k \in 1..Len(indices) : similarities[indices[k]] > 0})

\* vector_store.py:149-186 with the similarities computed (lines 152-166) and
\* one outcome `sorted` of the argsort: the indices answered and the results
SearchInMemory(chunks, similarities, query, top_k, sorted) ==
    LET picked == KeepPositive(TopIndices(similarities, sorted, top_k), similarities)
    IN  [picked  |-> picked,
         results |-> [k \in 1..Len(picked) |->
             [text  |-> chunks[picked[k]].text,
              original_html_context |-> chunks[picked[k]].original_html_context,
              path  |-> chunks[picked[k]].path,
              score |-> Round4(FinalScore(similarities[picked[k]],
                                          chunks[picked[k]].text, query))]]]

---------------------------------------------------------------------------
(* The parsed document (BeautifulSoup): the nodes in document order.  A node *)
(* is an element or a text node ("#text"); parent is the index of the       *)
(* parent element, 0 for a child of the soup object itself.                 *)

TextTag == "#text"

Elem(tag, parent, cls, id) ==
    [tag |-> tag, parent |-> parent, text |-> <<>>, cls |-> cls, id |-> id]

TextNode(parent, text) ==
    [tag |-> TextTag, parent |-> parent, text |-> text, cls |-> <<>>, id |-> ""]

RECURSIVE IsUnder(_, _, _)
\* node j lies in the subtree below node i (i = 0: the whole document)
IsUnder(doc, j, i) ==
    IF i = 0 THEN TRUE
    ELSE IF doc[j].parent = 0 THEN FALSE
    ELSE doc[j].parent = i \/ IsUnder(doc, doc[j].parent, i)

\* the members of the set of node indices, in document order
FilterSeq(n, keep) ==
    [k \in 1..Cardinality(keep \cap (1..n)) |-> NthOf(keep \cap (1..n), k)]

\* element.find_all(tags): the elements below i with one of the tags
FindAll(doc, i, tags) ==
    FilterSeq(Len(doc), {j \in 1..Len(doc) : IsUnder(doc, j, i) /\ doc[j].tag \in tags})

CharLen(s) == SumSeq([k \in 1..Len(s) |-> Len(s[k])])

\* s without the pieces c at its two ends
Trim(s, c) ==
    LET solid == {i \in 1..Len(s) : s[i] # c}
    IN  IF solid = {} THEN <<>>
        ELSE SubSeq(s, NthOf(solid, 1), NthOf(solid, Cardinality(solid)))

\* str.strip()
Strip(s) == Trim(s, Blank)

\* re.sub(r'\s+', ' ', s): of a run of blanks the first one stays
CollapseWs(s) ==
    Pick(s, {i \in 1..Len(s) : s[i] # Blank \/ i = 1 \/ s[i - 1] # Blank})

\* the text nodes of the subtree of i (i itself when it is a text node)
TextNodes(doc, i) ==
    FilterSeq(Len(doc), {j \in 1..Len(doc) :
        doc[j].tag = TextTag /\ (j = i \/ IsUnder(doc, j, i))})

\* element.get_text(): the text nodes of the subtree, concatenated
get_text(doc, i) ==
    LET ts == TextNodes(doc, i)
    IN  Concat([k \in 1..Len(ts) |-> doc[ts[k]].text])

DropEmpty(ss) == Pick(ss, {k \in 1..Len(ss) : ss[k] # <<>>})

\* element.get_text(separator=" ", strip=True): each text node stripped, the
\* empty ones dropped, joined with a blank
get_text_sep(doc, i) ==
    LET ts == TextNodes(doc, i)
    IN  Join(DropEmpty([k \in 1..Len(ts) |-> Strip(doc[ts[k]].text)]))

\* ' '.join(s.split())
NormalizeWs(s) == Join(Split(s))

---------------------------------------------------------------------------
(* fetcher.py *)

HeadingTags == {"h1", "h2", "h3", "h4", "h5", "h6"}

\* fetcher.py:37-40
unwanted_tags == {"script", "style", "noscript", "iframe", "object", "embed",
                  "canvas", "svg", "button", "input", "select", "textarea"}

\* fetcher.py:42-44: tag.decompose() of every unwanted element; the nodes
\* that stay keep their order and are renumbered
Decompose(doc) ==
    LET gone == {j \in 1..Len(doc) :
                    \E u \in 1..Len(doc) :
                        /\ doc[u].tag \in unwanted_tags
                        /\ (j = u \/ IsUnder(doc, j, u))}
        kept == FilterSeq(Len(doc), (1..Len(doc)) \ gone)
        new(j) == IF j = 0 THEN 0
                  ELSE Cardinality({k \in 1..j : k \notin gone})
    IN  [k \in 1..Len(kept) |->
            [doc[kept[k]] EXCEPT !.parent = new(doc[kept[k]].parent)]]

InSeq(x, s) == \E k \in 1..Len(s) : s[k] = x

\* fetcher.py:47-52: a selector is a tag and a class, "" for any
content_selectors ==
    << [tag |-> "main", cls |-> ""], [tag |-> "article", cls |-> ""],
       [tag |-> "section", cls |-> ""],
       [tag |-> "div", cls |-> "content"], [tag |-> "div", cls |-> "main-content"],
       [tag |-> "div", cls |-> "post-content"], [tag |-> "div", cls |-> "entry-content"],
       [tag |-> "div", cls |-> "article-body"], [tag |-> "div", cls |-> "text-content"],
       [tag |-> "", cls |-> "post-body"], [tag |-> "p", cls |-> ""] >>

\* soup.select(selector), in document order
Select(doc, sel) ==
    FilterSeq(Len(doc), {j \in 1..Len(doc) :
        /\ doc[j].tag # TextTag
        /\ (sel.tag = "" \/ doc[j].tag = sel.tag)
        /\ (sel.cls = "" \/ InSeq(sel.cls, doc[j].cls))})

\* fetcher.py:54-56
CandidateBlocks(doc) ==
    Concat([k \in 1..Len(content_selectors) |-> Select(doc, content_selectors[k])])

\* fetcher.py:65-66
BlockText(doc, block) == Strip(CollapseWs(get_text_sep(doc, block)))

MinBlockLen == 50
MinElementLen == 20

\* fetcher.py:68: the block is skipped
SkipBlockKeepsDuplicates(text, seen_texts) == CharLen(text) < MinBlockLen

SkipBlock(text, seen_texts) == CharLen(text) < MinBlockLen \/ text \in seen_texts

\* re.sub(r'[^a-z0-9]+', '-', text.lower()).strip('-') on a piece string: a
\* word stays, a run of anything else becomes one hyphen
SlugRuns(s) ==
    LET others == {Blank, ",", ".", "!", "?", "-"}
    IN  Pick([i \in 1..Len(s) |-> IF s[i] \in others THEN "-" ELSE s[i]],
             {i \in 1..Len(s) : s[i] \notin others \/ i = 1 \/ s[i - 1] \notin others})


\* fetcher.py:7-13
slugify(text) ==
    IF text = <<>> THEN <<>>
    ELSE Trim(SlugRuns(Lower(text)), "-")

\* fetcher.py:74-80: the heading inside the block, else the nearest heading
\* before it in the document; 0 when there is none
HeadingOf(doc, block) ==
    LET inside == FindAll(doc, block, HeadingTags)
        before == {j \in 1..(block - 1) : doc[j].tag \in HeadingTags}
    IN  IF inside # <<>> THEN inside[1]
        ELSE IF before # {} THEN CHOOSE j \in before : \A k \in before : k <= j
        ELSE 0

\* the class names that start with "css-"
GeneratedClasses == {"css-1x"}

\* fetcher.py:89-91: the first class that does not start with "css-"
FirstNotGenerated(cls) ==
    LET own == {k \in 1..Len(cls) : cls[k] \notin GeneratedClasses}
    IN  IF own = {} THEN "" ELSE cls[NthOf(own, 1)]

\* fetcher.py:60, 82-91
BlockPath(doc, block, base_path) ==
    LET h       == HeadingOf(doc, block)
        heading == IF h = 0 THEN <<>>
                   ELSE Strip(Concat([k \in 1..Len(TextNodes(doc, h)) |->
                                        Strip(doc[TextNodes(doc, h)[k]].text)]))
    IN  IF heading # <<>> THEN base_path \o <<"#">> \o slugify(heading)
        ELSE IF doc[block].id # "" THEN base_path \o <<"#">> \o slugify(<<doc[block].id>>)
        ELSE IF doc[block].cls # <<>> /\ FirstNotGenerated(doc[block].cls) # ""
             THEN base_path \o <<"#">> \o slugify(<<FirstNotGenerated(doc[block].cls)>>)
        ELSE base_path

TextElementTags == {"p", "h1", "h2", "h3", "h4", "h5", "h6", "div", "span", "li"}

\* fetcher.py:98-105: the first element whose text is longer than 20 and lies
\* in the block's text; 0 when there is none
FirstRelevant(doc, elements, text) ==
    LET element_text(k) == Strip(CollapseWs(get_text_sep(doc, elements[k])))
        relevant == {k \in 1..Len(elements) :
                        /\ CharLen(element_text(k)) > MinElementLen
                        /\ Contains(text, element_text(k))}
    IN  IF relevant = {} THEN 0 ELSE elements[NthOf(relevant, 1)]

\* fetcher.py:94-105: the element whose markup becomes the block's "html".
\* str(element) is parsed again by the request handler; the markup of an
\* element is modelled by the element's subtree in the document.
RelevantHtml(doc, block, text) ==
    LET found == FirstRelevant(doc, FindAll(doc, block, TextElementTags), text)
    IN  IF found = 0 THEN block ELSE found

\* fetcher.py:64-111: one iteration of the loop over the candidate blocks
ExtractLoopBody(st, doc, block, base_path) ==
    LET text == BlockText(doc, block)
    IN  IF SkipBlock(text, st.seen_texts) THEN st
        ELSE [seen_texts  |-> st.seen_texts \cup {text},
              chunks_data |-> Append(st.chunks_data,
                  [html |-> RelevantHtml(doc, block, text),
                   text |-> text,
                   path |-> BlockPath(doc, block, base_path)])]

\* the place of xs[i] in the list sorted by descending len(text): after the
\* longer entries and after the earlier ones of the same length (list.sort is
\* stable)
InsertByLen(xs, i) ==
    1 + Cardinality({j \in 1..Len(xs) :
            \/ CharLen(xs[j].text) > CharLen(xs[i].text)
            \/ j < i /\ CharLen(xs[j].text) = CharLen(xs[i].text)})

\* fetcher.py:116
SortByLenDesc(xs) ==
    [k \in 1..Len(xs) |-> xs[CHOOSE i \in 1..Len(xs) : InsertByLen(xs, i) = k]]

meaningful_words == {"the", "and", "or", "but", "in", "on", "at", "to", "for",
                     "of", "with", "by"}

MinWords == 10
MinMeaningful == 5

\* fetcher.py:124-127
IsQuality(text) ==
    LET words == Split(text)
        lower == Split(Lower(text))
        meaningful_word_count ==
            Cardinality({k \in 1..Len(lower) : ~ (\E w \in meaningful_words : lower[k] = <<w>>)})
    IN  Len(words) >= MinWords /\ meaningful_word_count >= MinMeaningful

\* fetcher.py:119-128
QualityFilter(xs) ==
    Pick(xs, {k \in 1..Len(xs) : IsQuality(xs[k].text)})

\* fetcher.py:116-131
ExtractFinish(st) == QualityFilter(SortByLenDesc(st.chunks_data))

ExtractLocals0 == [seen_texts |-> {}, chunks_data |-> <<>>]

RECURSIVE ExtractLoopRange(_, _, _, _, _, _)
\* the locals after each of blocks[lo..hi], starting from st
ExtractLoopRange(st, doc, blocks, lo, hi, base_path) ==
    IF lo = hi THEN <<ExtractLoopBody(st, doc, blocks[lo], base_path)>>
    ELSE LET mid  == (lo + hi) \div 2
             half == ExtractLoopRange(st, doc, blocks, lo, mid, base_path)
         IN  half \o ExtractLoopRange(half[Len(half)], doc, blocks, mid + 1, hi, base_path)

ExtractLoop(st, doc, blocks, base_path) ==
    IF blocks = <<>> THEN st
    ELSE ExtractLoopRange(st, doc, blocks, 1, Len(blocks), base_path)[Len(blocks)]

\* fetch_and_parse_html after a successful fetch (fetcher.py:34-131) on the
\* parsed response: the cleaned document and the content blocks
ParseBlocks(raw, base_path) ==
    LET doc == Decompose(raw)
    IN  [doc    |-> doc,
         blocks |-> ExtractFinish(ExtractLoop(ExtractLocals0, doc,
                                              CandidateBlocks(doc), base_path))]

---------------------------------------------------------------------------
(* main.py: find_element_containing_text *)

LocalizerTags == {"p", "h1", "h2", "h3", "h4", "h5", "h6", "div", "span", "li",
                  "article", "section"}

\* BeautifulSoup(html, "html.parser") of the markup of element root: the soup
\* object above the element's subtree.  In the walks below the soup object
\* is node Soup and its parent is NoNode.
Soup == 0
NoNode == -1

\* soup.find_all(tags) on the parsed markup of element root
FindAllIn(doc, root, tags) ==
    FilterSeq(Len(doc), {j \in 1..Len(doc) :
        (j = root \/ IsUnder(doc, j, root)) /\ doc[j].tag \in tags})

\* main.py:41: ' '.join(element.get_text().split())
ElementText(doc, j) == NormalizeWs(get_text(doc, j))

\* main.py:40-46: the first scanned element whose text contains the chunk;
\* NoNode when there is none
FirstContaining(doc, elements, clean_chunk) ==
    LET holding == {k \in 1..Len(elements) :
                       Contains(ElementText(doc, elements[k]), clean_chunk)}
    IN  IF holding = {} THEN NoNode ELSE elements[NthOf(holding, 1)]

ParentIn(doc, root, j) ==
    IF j = Soup THEN NoNode ELSE IF j = root THEN Soup ELSE doc[j].parent

LongChunkLen == 500
ClassDivLimit == 2000
max_depth == 5
NearDivLimit == 800
FarDivLimit == 2000

\* main.py:54-57
FirstClassDiv(doc, divs, clean_chunk) ==
    LET holding == {k \in 1..Len(divs) :
                       /\ Contains(ElementText(doc, divs[k]), clean_chunk)
                       /\ CharLen(ElementText(doc, divs[k])) < ClassDivLimit}
    IN  IF holding = {} THEN NoNode ELSE divs[NthOf(holding, 1)]

RECURSIVE WalkUp(_, _, _, _, _, _)
\* main.py:64-72 and 76-81: the first div from current_element upwards whose
\* text is shorter than limit, within `hops` steps; NoNode when there is none
WalkUp(doc, root, current_element, search_depth, hops, limit) ==
    IF current_element = NoNode \/ search_depth >= hops THEN NoNode
    ELSE IF /\ current_element # Soup
            /\ doc[current_element].tag = "div"
            /\ CharLen(ElementText(doc, current_element)) < limit
         THEN current_element
         ELSE WalkUp(doc, root, ParentIn(doc, root, current_element),
                     search_depth + 1, hops, limit)

\* main.py:48-49: no scanned element contains the chunk: str(soup)
NoMatchContext(doc, root) == root

\* find_element_containing_text(soup, text_chunk): the element whose markup
\* is returned (root: the whole parsed markup, str(soup))
find_element_containing_text(doc, root, text_chunk) ==
    LET clean_chunk == NormalizeWs(text_chunk)
        innermost_element ==
            FirstContaining(doc, FindAllIn(doc, root, LocalizerTags), clean_chunk)
        classDiv ==
            IF CharLen(clean_chunk) > LongChunkLen
            THEN FirstClassDiv(doc,
                     FilterSeq(Len(doc), {j \in 1..Len(doc) :
                         /\ (j = root \/ IsUnder(doc, j, root))
                         /\ doc[j].tag = "div" /\ doc[j].cls # <<>>}),
                     clean_chunk)
            ELSE NoNode
        near == WalkUp(doc, root, innermost_element, 0, max_depth, NearDivLimit)
        far  == WalkUp(doc, root, innermost_element, 0, Len(doc) + 2, FarDivLimit)
    IN  IF innermost_element = NoNode THEN NoMatchContext(doc, root)
        ELSE IF classDiv # NoNode THEN classDiv
        ELSE IF near # NoNode THEN near
        ELSE IF far # NoNode THEN far
        ELSE innermost_element

ChunkMaxTokens == 500

\* main.py:101-116: the chunk records of one block
BlockChunks(doc, block) ==
    LET text_chunks == chunk_text(block.text, ChunkMaxTokens)
    IN  [k \in 1..Len(text_chunks) |->
            [text |-> text_chunks[k],
             original_html_context |->
                 find_element_containing_text(doc, block.html, text_chunks[k]),
             path |-> block.path]]

\* main.py:100-116
ChunksForIndexing(doc, html_blocks) ==
    Concat([k \in 1..Len(html_blocks) |-> BlockChunks(doc, html_blocks[k])])

---------------------------------------------------------------------------
(* Pages: a container element with a few children, each holding one text *)

Sentence(ws) == Join([k \in 1..Len(ws) |-> <<ws[k]>>])

\* 55 characters, 12 words
LongText == Sentence(<<"the", "quick", "brown", "fox", "jumps", "over", "the",
                       "lazy", "dog", "and", "the", "cat">>)

\* 12 words with a leading, a doubled and a trailing blank; 55 characters
\* once normalized
SpacedText == <<Blank>> \o Sentence(<<"the", "lazy", "dog", "jumps", "over", "the",
                                     "quick", "brown">>) \o <<Blank, Blank>>
              \o Sentence(<<"fox", "and", "the", "cat">>) \o <<Blank>>

\* 19 characters
ShortText == Sentence(<<"the", "quick", "brown", "fox">>)

\* 60 characters, 5 words
MenuText == Sentence(<<"subscribe", "newsletter", "advertisement",
                       "notifications", "preferences">>)

PageTexts == {LongText, SpacedText, ShortText, MenuText}

Containers == { [tag |-> "article", cls |-> <<>>],
                [tag |-> "div", cls |-> <<"content">>],
                [tag |-> "div", cls |-> <<"css-1x">>] }

ChildTags == {"p", "div", "h2", "script"}

MaxChildren == 2

\* the parsed response: container, then each child element with its text node
PageDoc(container, tags, texts) ==
    <<Elem(container.tag, 0, container.cls, "")>> \o
    Concat([k \in 1..Len(tags) |->
        <<Elem(tags[k], 1, <<>>, ""), TextNode(2 * k, texts[k])>>])

base_path == <<"/">>

PgInit ==
    /\ \E n \in 1..MaxChildren :
       \E container \in Containers, tags \in [1..n -> ChildTags], texts \in [1..n -> PageTexts] :
           pg = [pc |-> "parse", raw |-> PageDoc(container, tags, texts),
                 doc |-> <<>>, blocks |-> <<>>, i |-> 0, st |-> ExtractLocals0,
                 html_blocks |-> <<>>, b |-> 0, chunks_for_indexing |-> <<>>]
    /\ ck = Idle
    /\ rk = Idle
    /\ in_memory_chunks = <<>>
    /\ in_memory_embeddings = <<>>
    /\ client = "None"
    /\ weaviate = [exists |-> FALSE, objects |-> <<>>]
    /\ req = <<>>
    /\ loop = 0
    /\ response = Idle
    /\ mp = Idle

\* fetcher.py:34-62
PgParse ==
    /\ pg.pc = "parse"
    /\ LET doc == Decompose(pg.raw)
       IN  pg' = [pg EXCEPT !.pc = "blocks", !.doc = doc,
                            !.blocks = CandidateBlocks(doc), !.i = 1]
    /\ UNCHANGED <<ck, rk, mp, server>>

\* fetcher.py:64-111
PgBlock ==
    /\ pg.pc = "blocks"
    /\ pg.i <= Len(pg.blocks)
    /\ pg' = [pg EXCEPT !.st = ExtractLoopBody(pg.st, pg.doc, pg.blocks[pg.i], base_path),
                        !.i = pg.i + 1]
    /\ UNCHANGED <<ck, rk, mp, server>>

\* fetcher.py:113-131
PgReturn ==
    /\ pg.pc = "blocks"
    /\ pg.i > Len(pg.blocks)
    /\ pg' = [pg EXCEPT !.pc = "chunks", !.html_blocks = ExtractFinish(pg.st), !.b = 1]
    /\ UNCHANGED <<ck, rk, mp, server>>

\* main.py:101-116, one block
PgChunkBlock ==
    /\ pg.pc = "chunks"
    /\ pg.b <= Len(pg.html_blocks)
    /\ pg' = [pg EXCEPT !.chunks_for_indexing =
                            pg.chunks_for_indexing \o BlockChunks(pg.doc, pg.html_blocks[pg.b]),
                        !.b = pg.b + 1]
    /\ UNCHANGED <<ck, rk, mp, server>>

PgDone ==
    /\ pg.pc = "chunks"
    /\ pg.b > Len(pg.html_blocks)
    /\ pg' = [pg EXCEPT !.pc = "done"]
    /\ UNCHANGED <<ck, rk, mp, server>>

PgNext == PgParse \/ PgBlock \/ PgReturn \/ PgChunkBlock \/ PgDone

---------------------------------------------------------------------------
(* Claims about the block extractor and the context localizer *)

\* the whitespace-normalized text of a context, read either as the handler
\* reads an element (main.py:41) or as the extractor reads a block
\* (fetcher.py:65-66)
ContextHolds(doc, ctx, chunk_text_) ==
    \/ Contains(ElementText(doc, ctx), NormalizeWs(chunk_text_))
    \/ Contains(BlockText(doc, ctx), NormalizeWs(chunk_text_))

\* C9: for every chunk the handler builds from a block, the normalized text
\* of its html_context contains the normalized chunk text, on every return
\* path of find_element_containing_text.
C9_ContextContainsChunk ==
    \A k \in 1..Len(pg.chunks_for_indexing) :
        ContextHolds(pg.doc, pg.chunks_for_indexing[k].original_html_context,
                     pg.chunks_for_indexing[k].text)

\* C10: no two returned blocks have the same text, and every returned block's
\* text has at least 50 characters.
C10_BlocksDistinctAndLong ==
    pg.pc \in {"chunks", "done"} =>
        /\ \A a, b \in 1..Len(pg.html_blocks) :
               a # b => pg.html_blocks[a].text # pg.html_blocks[b].text
        /\ \A a \in 1..Len(pg.html_blocks) :
               CharLen(pg.html_blocks[a].text) >= MinBlockLen

\* two different candidate elements with the same text, of which exactly one
\* block is returned
C10_Witness ==
    /\ pg.pc = "done"
    /\ \E a, b \in 1..Len(pg.blocks) :
           /\ pg.blocks[a] # pg.blocks[b]
           /\ BlockText(pg.doc, pg.blocks[a]) = BlockText(pg.doc, pg.blocks[b])
           /\ Cardinality({k \in 1..Len(pg.html_blocks) :
                  pg.html_blocks[k].text = BlockText(pg.doc, pg.blocks[a])}) = 1

---------------------------------------------------------------------------
(* A call of search_chunks_in_store on an index of a few chunks *)

MaxIndexed == 3
MaxTopK == 3

RankTexts == { <<"fox">>,
               <<"Fox", Blank, "dog", ".", Blank, "fox">>,
               <<"cat", Blank, "dog">> }

RankQueries == { <<"fox">>, <<"fox", Blank, "Dog">> }

\* cosine similarities, in units of 1/Scale
Similarities == {-20000, 0, 45003, 50004}

RankChunk(text) == [text |-> text, original_html_context |-> <<>>, path |-> <<>>]

RkInit ==
    /\ \E n \in 1..MaxIndexed :
       \E texts \in [1..n -> RankTexts], sims \in [1..n -> Similarities],
          query \in RankQueries, top_k \in 1..MaxTopK :
           rk = [pc |-> "call",
                 chunks |-> [k \in 1..n |-> RankChunk(texts[k])],
                 similarities |-> sims,
                 query |-> query, top_k |-> top_k,
                 picked |-> <<>>, results |-> <<>>]
    /\ ck = Idle
    /\ pg = Idle
    /\ in_memory_chunks = <<>>
    /\ in_memory_embeddings = <<>>
    /\ client = "None"
    /\ weaviate = [exists |-> FALSE, objects |-> <<>>]
    /\ req = <<>>
    /\ loop = 0
    /\ response = Idle
    /\ mp = Idle

RkSearch ==
    /\ rk.pc = "call"
    /\ \E sorted \in ArgSorts(rk.similarities) :
          LET out == SearchInMemory(rk.chunks, rk.similarities, rk.query, rk.top_k, sorted)
          IN  rk' = [rk EXCEPT !.pc = "done", !.picked = out.picked,
                               !.results = out.results]
    /\ UNCHANGED <<ck, pg, mp, server>>

RkNext == RkSearch

SpecRank == RkInit /\ [][RkNext]_vars

SpecPage == PgInit /\ [][PgNext]_vars

---------------------------------------------------------------------------
(* Claims about the ranking *)

\* the boosted score min(1.0, base_similarity + boost) of indexed chunk k,
\* rounded as a result's score is
BoostedScore(k) == Round4(FinalScore(rk.similarities[k], rk.chunks[k].text, rk.query))

\* C1: the result list is sorted by descending raw_score: no result is
\* followed by a result with a strictly greater score.
C1_ResultsSortedByScore ==
    rk.pc = "done" =>
        \A k \in 1..(Len(rk.results) - 1) :
            rk.results[k].score >= rk.results[k + 1].score

\* C2: the ranking returns the first top_k chunks by descending boosted score:
\* no chunk left out of the results has a positive boosted score strictly
\* greater than the boosted score of a returned chunk.
C2_TopKByBoostedScore ==
    rk.pc = "done" =>
        \A out \in 1..Len(rk.chunks) :
            (\A k \in 1..Len(rk.picked) : rk.picked[k] # out) =>
                ~ (/\ BoostedScore(out) > 0
                   /\ \E k \in 1..Len(rk.picked) :
                          BoostedScore(out) > rk.results[k].score)

---------------------------------------------------------------------------
(* A run of chunk_text, one loop iteration per step *)

MaxTextLen == 5
MaxTokensBound == 3

ChunkPieces == {"fox", "dog", Blank, ","}

ChunkTexts == UNION {[1..n -> ChunkPieces] : n \in 0..MaxTextLen}

CkInit ==
    /\ \E text \in ChunkTexts, m \in 0..MaxTokensBound :
           ck = [pc |-> "call", text |-> text, max_tokens |-> m, words |-> <<>>,
                 i |-> 0, st |-> ChunkLocals0, result |-> <<>>]
    /\ rk = Idle
    /\ pg = Idle
    /\ in_memory_chunks = <<>>
    /\ in_memory_embeddings = <<>>
    /\ client = "None"
    /\ weaviate = [exists |-> FALSE, objects |-> <<>>]
    /\ req = <<>>
    /\ loop = 0
    /\ response = Idle
    /\ mp = Idle

\* tokenizer.py:16-22
CkEnter ==
    /\ ck.pc = "call"
    /\ IF ck.text = <<>>
       THEN ck' = [ck EXCEPT !.pc = "done", !.result = <<>>]
       ELSE ck' = [ck EXCEPT !.pc = "loop", !.words = word_tokenize(ck.text), !.i = 1]
    /\ UNCHANGED <<rk, pg, mp, server>>

\* tokenizer.py:24-33
CkIterate ==
    /\ ck.pc = "loop"
    /\ ck.i <= Len(ck.words)
    /\ ck' = [ck EXCEPT !.st = ChunkLoopBody(ck.st, ck.words[ck.i], ck.max_tokens),
                        !.i = ck.i + 1]
    /\ UNCHANGED <<rk, pg, mp, server>>

\* tokenizer.py:35-39
CkReturn ==
    /\ ck.pc = "loop"
    /\ ck.i > Len(ck.words)
    /\ ck' = [ck EXCEPT !.pc = "done", !.result = ChunkFlush(ck.st)]
    /\ UNCHANGED <<rk, pg, mp, server>>

CkNext == CkEnter \/ CkIterate \/ CkReturn

SpecChunk == CkInit /\ [][CkNext]_vars

---------------------------------------------------------------------------
(* Claims about chunk_text *)

\* the tokens of a chunk: the chunk string cut at the blanks the join put in
ChunkTokens(chunk) == Split(chunk)

TokensOfChunks(chunks) == Concat([k \in 1..Len(chunks) |-> ChunkTokens(chunks[k])])

\* C7: the chunks returned by chunk_text partition the token sequence of the
\* text: the tokens of the chunks, concatenated in output order, are exactly
\* the tokens of the input, so the token counts add up, no token is dropped
\* or duplicated and the order is kept.
C7_ChunksPartitionTokens ==
    ck.pc = "done" => TokensOfChunks(ck.result) = word_tokenize(ck.text)

\* a text of several tokens that was cut into more than one chunk
C7_Witness ==
    /\ ck.pc = "done"
    /\ Len(word_tokenize(ck.text)) >= 3
    /\ Len(ck.result) >= 2
    /\ \E k \in 1..Len(ck.result) : Len(ChunkTokens(ck.result[k])) >= 2
    /\ TokensOfChunks(ck.result) = word_tokenize(ck.text)

\* C8: for max_tokens >= 1 every chunk has at least 1 and at most max_tokens
\* tokens, and every chunk but the last has exactly max_tokens tokens.
C8_GreedyFill ==
    (ck.pc = "done" /\ ck.max_tokens >= 1) =>
        \A k \in 1..Len(ck.result) :
            LET n == Len(ChunkTokens(ck.result[k]))
            IN  /\ 1 <= n
                /\ n <= ck.max_tokens
                /\ (k < Len(ck.result) => n = ck.max_tokens)

\* "hello world"-like input: two tokens, max_tokens = 1, two chunks of one token
C8_Witness ==
    /\ ck.pc = "done"
    /\ ck.max_tokens = 1
    /\ ck.text = <<"fox", Blank, "dog">>
    /\ ck.result = << <<"fox">>, <<"dog">> >>


---------------------------------------------------------------------------
(* vector_store.py: the Weaviate client and the three store functions.      *)
(* G is the module's global state [chunks, embeddings, client, weaviate];   *)
(* env says how the outside world answers during the call.                  *)

\* vector_store.py:46-58: _get_client().  The global is assigned at line 51,
\* before connect() is called at line 52, so a connect() that raises leaves
\* an unconnected client object in the global, and None is returned; a
\* constructor that raises leaves the global None
GetClient(c, connect) ==
    IF c = "None"
    THEN CASE connect = "ok" ->
                  [client |-> "connected",   handle |-> "connected"]
           [] connect = "connect_raises" ->
                  [client |-> "unconnected", handle |-> "None"]
           [] connect = "construct_raises" ->
                  [client |-> "None",        handle |-> "None"]
    ELSE [client |-> c, handle |-> c]

\* a call on the client object succeeds: the client is connected and the
\* server answers; on an unconnected client every call raises
CallSucceeds(handle, answers) == handle = "connected" /\ answers

\* the except clauses of vector_store.py:80-82, 105-106 and 139-140: what is
\* raised out of the function after an exception inside the try block
RaisedOutUncaught(exception) == exception

RaisedOut(exception) == "none"

\* vector_store.py:60-82
setup_schema(G, env) ==
    LET gc == GetClient(G.client, env.connect)
    IN  IF gc.handle = "None" THEN [G |-> [G EXCEPT !.client = gc.client], ok |-> FALSE]
        ELSE IF CallSucceeds(gc.handle, env.schema)
             THEN [G |-> [G EXCEPT !.client = gc.client, !.weaviate.exists = TRUE],
                   ok |-> TRUE]
             ELSE [G |-> [G EXCEPT !.client = gc.client], ok |-> FALSE]

\* vector_store.py:88-89
ResetInMemoryKeeps(G) == G

ResetInMemory(G) == [G EXCEPT !.chunks = <<>>, !.embeddings = <<>>]

\* vector_store.py:84-106
clear_vector_store(G, env) ==
    LET s == setup_schema(ResetInMemory(G), env)
    IN  IF ~ s.ok THEN [G |-> s.G, raised |-> "none"]
        ELSE IF CallSucceeds(s.G.client, env.clear)
             THEN [G |-> [s.G EXCEPT !.weaviate.objects = <<>>], raised |-> "none"]
             ELSE [G |-> s.G, raised |-> RaisedOut("WeaviateError")]

\* _model.encode(texts): the embedding of a text is modelled by the text
Encode(texts) == texts

MaxObjects == 1

\* vector_store.py:108-140; env.inserts: the inserts the server accepts
\* before one fails
embed_and_index_chunks(G, chunks, env) ==
    IF chunks = <<>> THEN [G |-> G, raised |-> "none"]
    ELSE IF ~ env.encode THEN [G |-> G, raised |-> "EncodeError"]
    ELSE
        LET texts == [k \in 1..Len(chunks) |-> chunks[k].text]
            G1 == [G EXCEPT !.chunks = G.chunks \o chunks,
                            !.embeddings = G.embeddings \o Encode(texts)]
            gc == GetClient(G1.client, env.connect)
            G2 == [G1 EXCEPT !.client = gc.client]
            room == MaxObjects - Len(G2.weaviate.objects)
            done == IF gc.handle = "connected" /\ G2.weaviate.exists
                    THEN Min(Min(env.inserts, Len(chunks)), room)
                    ELSE 0
        IN  IF gc.handle = "None" THEN [G |-> G2, raised |-> "none"]
            ELSE [G |-> [G2 EXCEPT !.weaviate.objects = @ \o SubSeq(chunks, 1, done)],
                  raised |-> IF done = Len(chunks) THEN "none"
                             ELSE RaisedOut("WeaviateError")]

\* vector_store.py:188-211: the answer of the Weaviate query
SearchWeaviate(G, similarities, sorted, top_k, env) ==
    LET gc == GetClient(G.client, env.connect)
        picked == TopIndices(similarities, sorted, top_k)
    IN  [G |-> [G EXCEPT !.client = gc.client],
         results |->
            IF gc.handle = "None" \/ ~ CallSucceeds(gc.handle, env.query) THEN <<>>
            ELSE [k \in 1..Len(picked) |->
                    [text  |-> G.weaviate.objects[picked[k]].text,
                     original_html_context |->
                         G.weaviate.objects[picked[k]].original_html_context,
                     path  |-> G.weaviate.objects[picked[k]].path,
                     score |-> Round4(similarities[picked[k]])]]]

\* vector_store.py:142-211; env.similarities and env.sorted: the cosine
\* similarities of the query to the entries searched and one outcome of the
\* sort
search_chunks_in_store(G, query, top_k, env) ==
    IF ~ env.encode THEN [G |-> G, results |-> <<>>, path |-> "none", raised |-> "EncodeError"]
    ELSE IF G.chunks # <<>> /\ G.embeddings # <<>>
    THEN [G |-> G,
          results |-> SearchInMemory(G.chunks, env.similarities, query, top_k,
                                     env.sorted).results,
          path |-> "memory", raised |-> "none"]
    ELSE LET w == SearchWeaviate(G, env.similarities, env.sorted, top_k, env)
         IN  [G |-> w.G, results |-> w.results, path |-> "weaviate", raised |-> "none"]

---------------------------------------------------------------------------
(* main.py: the /search handler *)

\* main.py:130-132: base_percentage * 1.3 of a score in units of 1/ScoreScale
\* is PercentBoost * score in units of 0.001 percent; the two clamps of line
\* 132 in the same units
PercentBoost == 13
LowPercentage == 60000
HighPercentage == 95000

AdjustedPercentageUnclamped(score) == PercentBoost * score

\* main.py:130-132: adjusted_percentage, in units of 0.001 percent
AdjustedPercentage(score) ==
    Min(HighPercentage, Max(LowPercentage, PercentBoost * score))

\* the product of main.py:130-132 is a float: a value half way between two
\* hundredths is stored a little above or a little below it, and round goes
\* to the nearer side
RoundTies == {"up", "down"}

IsTie(score) == AdjustedPercentage(score) % 10 = 5

\* main.py:138: round(adjusted_percentage, 2), in units of 0.01 percent
Round2(x, tie) ==
    IF x % 10 = 5
    THEN IF tie = "up" THEN x \div 10 + 1 ELSE x \div 10
    ELSE (x + 5) \div 10

\* main.py:129-138: match_percentage, in units of 0.01 percent, of a score in
\* units of 1/ScoreScale
MatchPercentage(score, tie) == Round2(AdjustedPercentage(score), tie)

\* a tie side matters only for a score whose percentage is half way
TieSides(score) == IF IsTie(score) THEN RoundTies ELSE {"up"}

\* the sides the floats of the scores of raw_results can fall on
TieChoices(raw_results) ==
    LET scores == {raw_results[k].score : k \in 1..Len(raw_results)}
    IN  {ties \in [scores -> RoundTies] : \A x \in scores : ties[x] \in TieSides(x)}

\* main.py:126-139
FinalResults(raw_results, ties) ==
    [k \in 1..Len(raw_results) |->
        [chunk_content |-> raw_results[k].text,
         original_html_context |-> raw_results[k].original_html_context,
         path |-> raw_results[k].path,
         relevance_score |-> raw_results[k].score,
         match_percentage |-> MatchPercentage(raw_results[k].score,
                                              ties[raw_results[k].score])]]

---------------------------------------------------------------------------
(* The percentage mapping of main.py:129-138 on two scores *)

\* the scores compared lie at most MaxGap apart, or one of the FarGaps
MaxGap == 3
FarGaps == {100, 2500, 5000, 10000}

\* the scores of results: round(final_score, 4) of a value in 0.0 .. 1.0
MpInit ==
    /\ \E a \in 0..ScoreScale, d \in (0..MaxGap) \cup FarGaps :
       \E ta \in TieSides(a), tb \in TieSides(Min(ScoreScale, a + d)) :
           /\ (d = 0 => ta = tb)
           /\ mp = [pc |-> "call", a |-> a, b |-> Min(ScoreScale, a + d),
                    ta |-> ta, tb |-> tb, pa |-> 0, pb |-> 0]
    /\ ck = Idle
    /\ rk = Idle
    /\ pg = Idle
    /\ in_memory_chunks = <<>>
    /\ in_memory_embeddings = <<>>
    /\ client = "None"
    /\ weaviate = [exists |-> FALSE, objects |-> <<>>]
    /\ req = <<>>
    /\ loop = 0
    /\ response = Idle

\* main.py:129-138 for a result of score a and a result of score b
MpMap ==
    /\ mp.pc = "call"
    /\ mp' = [mp EXCEPT !.pc = "done",
                        !.pa = MatchPercentage(mp.a, mp.ta),
                        !.pb = MatchPercentage(mp.b, mp.tb)]
    /\ UNCHANGED <<ck, rk, pg, server>>

MpNext == MpMap

SpecPercent == MpInit /\ [][MpNext]_vars

\* C11: match_percentage lies within 60.0 and 95.0, and is a non-decreasing
\* function of raw_score: for two scores a <= b, percentage(a) <= percentage(b).
C11_PercentageBoundedMonotone ==
    mp.pc = "done" =>
        /\ mp.pa >= 6000 /\ mp.pa <= 9500
        /\ mp.pb >= 6000 /\ mp.pb <= 9500
        /\ (mp.a <= mp.b => mp.pa <= mp.pb)
        /\ (mp.a = mp.b => mp.pa = mp.pb)

\* two scores strictly between the clamps, the lower one half way between
\* two hundredths and rounded up
C11_Witness ==
    /\ mp.pc = "done"
    /\ mp.a < mp.b
    /\ IsTie(mp.a) /\ mp.ta = "up"
    /\ mp.pa > 6000
    /\ mp.pb < 9500


\* main.py:143-151: the status of the response for an exception raised in
\* the handler
StatusOfGenericOnly(exception) ==
    CASE exception = "HTTPException404" -> 404
      [] OTHER -> 500

\* requests.exceptions.ConnectTimeout is both a ConnectionError and a Timeout:
\* the except clause for Timeout comes first
StatusOf(exception) ==
    CASE exception = "HTTPException404" -> 404
      [] exception \in {"Timeout", "ConnectTimeout"} -> 408
      [] exception \in {"ConnectionError", "ConnectTimeout"} -> 502
      [] OTHER -> 500

\* fetcher.py:15-32 awaited at main.py:93: fetch_and_parse_html holds no
\* await and requests.get blocks the thread, so the coroutine runs to its
\* end without giving up the event loop: after the await the loop is still
\* held by request r
LoopAfterAwaitYields(r) == 0

LoopAfterAwait(r) == r

---------------------------------------------------------------------------
(* The server: requests arrive at any time; a handler runs on the event loop *)

MaxRequests == 2
Requests == 1..MaxRequests
NoTask == 0

\* the pages behind the URLs: one block; two blocks; no block
Urls == {"a", "b", "c"}

PageAt(url) ==
    CASE url = "a" -> PageDoc([tag |-> "article", cls |-> <<>>], <<"p">>, <<LongText>>)
      [] url = "b" -> PageDoc([tag |-> "div", cls |-> <<"css-1x">>], <<"p", "p">>,
                              <<SpacedText, LongText>>)
      [] OTHER     -> PageDoc([tag |-> "article", cls |-> <<>>], <<"p">>, <<ShortText>>)

\* urlparse(url).path or "/"
BasePath(url) == <<"/", url>>

\* fetch_and_parse_html(url) after a successful fetch, and the chunk records
\* the handler builds from its blocks (main.py:100-116)
Fetched ==
    [url \in Urls |->
        LET page == ParseBlocks(PageAt(url), BasePath(url))
        IN  [html_blocks |-> page.blocks,
             chunks_for_indexing |-> ChunksForIndexing(page.doc, page.blocks)]]

Query == <<"fox">>

FetchOutcomes == {"ok", "Timeout", "ConnectTimeout", "ConnectionError", "HTTPError"}

ConnectOutcomes == {"ok", "connect_raises", "construct_raises"}

\* the outcomes of a connection attempt that matter: none when the client
\* object exists already
ConnectChoices(c) == IF c = "None" THEN ConnectOutcomes ELSE {"ok"}

\* the answers of the server that matter: none without a connected client
AnswerChoices(c, connect) ==
    IF c = "connected" \/ (c = "None" /\ connect = "ok") THEN BOOLEAN ELSE {FALSE}

SearchTopK == 10

\* cosine similarities of a query to the n entries, equal for equal embeddings
SimilarityChoices(embeddings) ==
    {sims \in [1..Len(embeddings) -> {0, 50004}] :
        \A a, b \in 1..Len(embeddings) :
            embeddings[a] = embeddings[b] => sims[a] = sims[b]}

Globals == [chunks |-> in_memory_chunks, embeddings |-> in_memory_embeddings,
            client |-> client, weaviate |-> weaviate]

SetGlobals(G) ==
    /\ in_memory_chunks' = G.chunks
    /\ in_memory_embeddings' = G.embeddings
    /\ client' = G.client
    /\ weaviate' = G.weaviate

NoRequest == [pc |-> "idle"]

\* a request in flight: its place in the handler, its locals, and whether it
\* has called embed_and_index_chunks
NewRequest(url) ==
    [pc |-> "pending", url |-> url, chunks_for_indexing |-> <<>>, indexed |-> FALSE]

NoResponse == [status |-> 0]

\* the response to request rec: the exception that ended the handler
\* ("none": it returned), the status and the results, the index the search
\* read and how, and the in-memory index as the handler left it
Response(rec, exception, status, results, searched, search_path, G) ==
    [url |-> rec.url, chunks_for_indexing |-> rec.chunks_for_indexing,
     indexed |-> rec.indexed, error |-> exception, status |-> status,
     results |-> results, searched |-> searched, search_path |-> search_path,
     store_at_end |-> G.chunks]

\* the handler raised: the response is the status of main.py:143-151
Failed(rec, exception, G) ==
    Response(rec, exception, StatusOf(exception), <<>>, <<>>, "none", G)

ServerInit ==
    /\ in_memory_chunks = <<>>
    /\ in_memory_embeddings = <<>>
    /\ client = "None"
    /\ weaviate = [exists |-> FALSE, objects |-> <<>>]
    /\ req = [r \in Requests |-> NoRequest]
    /\ loop = NoTask
    /\ response = NoResponse
    /\ ck = Idle
    /\ rk = Idle
    /\ pg = Idle
    /\ mp = Idle

\* a client sends a request; its handler starts when the event loop is free
Arrive(r) ==
    /\ req[r].pc = "idle"
    /\ \E url \in Urls : req' = [req EXCEPT ![r] = NewRequest(url)]
    /\ UNCHANGED <<ck, rk, pg, mp, store, loop, response>>

\* the handler of request r ends and its response is sent
Ends(r, resp) ==
    /\ req' = [req EXCEPT ![r] = NoRequest]
    /\ loop' = NoTask
    /\ response' = resp

\* main.py:89-93: clear_vector_store(), up to the await
HandlerClear(r) ==
    /\ req[r].pc = "pending"
    /\ loop = NoTask
    /\ \E connect \in ConnectChoices(client) :
       \E schema, clear \in AnswerChoices(client, connect) :
          LET out == clear_vector_store(Globals,
                         [connect |-> connect, schema |-> schema, clear |-> clear])
          IN  /\ SetGlobals(out.G)
              /\ IF out.raised # "none"
                 THEN Ends(r, Failed(req[r], out.raised, out.G))
                 ELSE /\ req' = [req EXCEPT ![r].pc = "fetch"]
                      /\ loop' = r
                      /\ UNCHANGED response
    /\ UNCHANGED <<ck, rk, pg, mp>>

\* main.py:93-120: the awaited fetch, and the chunks of the blocks
HandlerFetch(r) ==
    /\ req[r].pc = "fetch"
    /\ loop = r
    /\ \E outcome \in FetchOutcomes :
          LET page == Fetched[req[r].url]
          IN  IF outcome # "ok"
              THEN Ends(r, Failed(req[r], outcome, Globals))
              ELSE IF page.html_blocks = <<>> \/ page.chunks_for_indexing = <<>>
              THEN Ends(r, Failed(req[r], "HTTPException404", Globals))
              ELSE /\ req' = [req EXCEPT ![r].pc = "index",
                                  ![r].chunks_for_indexing = page.chunks_for_indexing]
                   /\ loop' = LoopAfterAwait(r)
                   /\ UNCHANGED response
    /\ UNCHANGED <<ck, rk, pg, mp, store>>

\* main.py:122: embed_and_index_chunks(chunks_for_indexing)
HandlerIndex(r) ==
    /\ req[r].pc = "index"
    /\ loop \in {r, NoTask}
    /\ \E encode \in BOOLEAN, connect \in ConnectChoices(client) :
       \E inserts \in IF TRUE \in AnswerChoices(client, connect)
                      THEN 0..Len(req[r].chunks_for_indexing) ELSE {0} :
          LET out == embed_and_index_chunks(Globals, req[r].chunks_for_indexing,
                         [connect |-> connect, encode |-> encode, inserts |-> inserts])
              rec == [req[r] EXCEPT !.indexed = TRUE]
          IN  /\ SetGlobals(out.G)
              /\ IF out.raised # "none"
                 THEN Ends(r, Failed(rec, out.raised, out.G))
                 ELSE /\ req' = [req EXCEPT ![r] = [rec EXCEPT !.pc = "search"]]
                      /\ loop' = r
                      /\ UNCHANGED response
    /\ UNCHANGED <<ck, rk, pg, mp>>

\* main.py:123-141: search_chunks_in_store(query, top_k=10) and the response
HandlerSearch(r) ==
    /\ req[r].pc = "search"
    /\ loop = r
    /\ LET memory   == in_memory_chunks # <<>> /\ in_memory_embeddings # <<>>
           searched == IF memory THEN in_memory_embeddings
                       ELSE [k \in 1..Len(weaviate.objects) |-> weaviate.objects[k].text]
       IN  \E encode \in BOOLEAN,
              connect \in IF memory THEN {"ok"} ELSE ConnectChoices(client),
              sims \in SimilarityChoices(searched) :
           \E query \in IF memory THEN {FALSE} ELSE AnswerChoices(client, connect),
              sorted \in ArgSorts(sims) :
              LET out == search_chunks_in_store(Globals, Query, SearchTopK,
                             [connect |-> connect, encode |-> encode, query |-> query,
                              similarities |-> sims, sorted |-> sorted])
              IN  /\ SetGlobals(out.G)
                  /\ IF out.raised # "none"
                     THEN Ends(r, Failed(req[r], out.raised, out.G))
                     ELSE \E ties \in TieChoices(out.results) :
                             Ends(r, Response(req[r], "none", 200,
                                              FinalResults(out.results, ties),
                                              in_memory_chunks, out.path, out.G))
    /\ UNCHANGED <<ck, rk, pg, mp>>

Next ==
    \E r \in Requests :
        \/ Arrive(r)
        \/ HandlerClear(r)
        \/ HandlerFetch(r)
        \/ HandlerIndex(r)
        \/ HandlerSearch(r)

Spec == ServerInit /\ [][Next]_vars

---------------------------------------------------------------------------
(* Claims about the /search handler and the store *)

IsIn(x, seq) == \E k \in 1..Len(seq) : seq[k] = x

\* result res is chunk record c as the response shows it
ResultOf(res, c) ==
    /\ res.chunk_content = c.text
    /\ res.original_html_context = c.original_html_context
    /\ res.path = c.path

Answered == response.status = 200

\* the Weaviate collection still holds a chunk of another page than url: an
\* earlier request indexed that page
EarlierPageIndexed(url) ==
    \E k \in 1..Len(weaviate.objects) :
        ~ IsIn(weaviate.objects[k], Fetched[url].chunks_for_indexing)

\* C3: the corpus is not cumulative: the in-memory store a request searches
\* holds exactly the chunks extracted from that request's own page, and every
\* result is a chunk of that page, whatever the earlier requests did.
C3_CorpusNotCumulative ==
    /\ \A r \in Requests :
           req[r].pc = "search" =>
               in_memory_chunks = Fetched[req[r].url].chunks_for_indexing
    /\ Answered =>
           /\ response.searched = Fetched[response.url].chunks_for_indexing
           /\ \A k \in 1..Len(response.results) :
                  \E j \in 1..Len(Fetched[response.url].chunks_for_indexing) :
                      ResultOf(response.results[k],
                               Fetched[response.url].chunks_for_indexing[j])

\* a request answered with results after an earlier request had indexed
\* another page
C3_Witness ==
    /\ Answered
    /\ response.results # <<>>
    /\ EarlierPageIndexed(response.url)

\* C4: a request whose fetch fails with a connection error ends with status
\* 502 (not the timeout, no-content or internal-error status), has not called
\* embed_and_index_chunks, and leaves the in-memory store empty.
C4_ConnectionErrorLeavesNoIndex ==
    (response.status # 0 /\ response.error = "ConnectionError") =>
        /\ response.status = 502
        /\ response.status \notin {StatusOf("Timeout"), StatusOf("HTTPException404"),
                                   StatusOf("HTTPError")}
        /\ ~ response.indexed
        /\ response.store_at_end = <<>>

\* a request that failed with a connection error after an earlier request
\* had indexed its chunks
C4_Witness ==
    /\ response.status # 0
    /\ response.error = "ConnectionError"
    /\ weaviate.objects # <<>>

C6_StoreFailureIsNotFatal ==
    /\ response.status # 0 =>
           response.error \in {"none", "EncodeError", "HTTPException404"} \cup FetchOutcomes
    /\ \A r \in Requests :
           req[r].pc = "search" =>
               \A j \in 1..Len(req[r].chunks_for_indexing) :
                   IsIn(req[r].chunks_for_indexing[j], in_memory_chunks)
    /\ (response.status # 0 /\ response.indexed /\ response.error = "none") =>
           /\ response.status = 200
           /\ response.search_path = "memory"

\* a request answered with results from the in-memory scan although the
\* connection to Weaviate had failed: the client object is unconnected and
\* the collection was never created
C6_Witness ==
    /\ Answered
    /\ response.results # <<>>
    /\ response.search_path = "memory"
    /\ client = "unconnected"
    /\ ~ weaviate.exists

=============================================================================
